---------------------------- MODULE Spec2Model ----------------------------
(***************************************************************************)
(* Model of the symbolic cost estimator of libbsv_cost_estimator           *)
(* (src/libbsv_cost_estimator/src/cost_estimator.cpp).                     *)
(*                                                                         *)
(* One call of CostEstimator::Impl::estimate is modelled as a state        *)
(* machine: Begin is the code before the while loop, every other action    *)
(* is one whole iteration of the loop (opcode limit check, dispatch, the   *)
(* branch taken for the decoded byte, peak tracking, stack limit checks),  *)
(* and Return is the loop exit.                                            *)
(*                                                                         *)
(* Floating point coefficients (double) are kept as integers in tenths;    *)
(* static_cast<uint64_t> is truncation of the tenths (Trunc).              *)
(***************************************************************************)
EXTENDS Integers, Sequences, FiniteSets, TLC

(***************************************************************************)
(* Bounds of the model                                                     *)
(***************************************************************************)
MaxLockLen == 3

MaxTxLen == 2

(***************************************************************************)
(* enum class OpCode (the values the executor or the inputs use)           *)
(***************************************************************************)
OP_0 == 0

OP_1 == 81

OP_PUSHDATA1 == 76

OP_PUSHDATA2 == 77

OP_PUSHDATA4 == 78

OP_DUP == 118

OP_SWAP == 124

OP_CAT == 126

OP_SHA256 == 168

OP_HASH256 == 170

OP_CHECKSIG == 172

OP_CHECKMULTISIG == 174

OP_IF == 99

OP_ELSE == 103

OP_ENDIF == 104

SIGHASH_ALL == 1

SIGHASH_NONE == 2

SIGHASH_SINGLE == 3

SIGHASH_ANYONECANPAY == 128

(***************************************************************************)
(* Warning texts.  The first four are the strings the code pushes; the     *)
(* last three are named by the specification only.                         *)
(***************************************************************************)
ScriptTooLarge == "Script exceeds size limit"

OpcodeLimitExceeded == "Opcode count limit exceeded"

StackBytesExceeded == "Stack byte limit exceeded"

StackItemsExceeded == "Stack item count limit exceeded"

CycleLimitExceeded == "CycleLimitExceeded"

Underflow == "Underflow"

TruncatedPush == "TruncatedPush"

(***************************************************************************)
(* Fixed point representation of double coefficients: tenths.              *)
(***************************************************************************)
Scale == 10

Trunc(x) == x \div Scale

Max(a, b) == IF a >= b THEN a ELSE b

RECURSIVE SeqSum(_)
SeqSum(s) == IF s = <<>> THEN 0 ELSE s[Len(s)] + SeqSum(SubSeq(s, 1, Len(s) - 1))

BoundedSeq(S, n) == UNION {[1..k -> S] : k \in 0..n}

(***************************************************************************)
(* Inputs                                                                  *)
(***************************************************************************)
\* bytes the locking scripts are built from: OP_0, a direct push, PUSHDATA1,
\* PUSHDATA2, and the opcodes the executor handles
ScriptBytes == {OP_0, 1, OP_PUSHDATA1, OP_PUSHDATA2, OP_DUP, OP_SWAP,
                OP_CAT, OP_SHA256, OP_CHECKSIG}

\* unlocking scripts: empty, a push whose payload is the first locking byte,
\* a complete 1-byte push, a PUSHDATA1 of length 0
UnlockScripts == { <<>>, <<1>>, <<1, 0>>, <<OP_PUSHDATA1, 0>> }

\* a direct push of n payload bytes
PushOf(n) == <<n>> \o [i \in 1..n |-> 0]

\* the scripts of the tests and of the example runner, as <<unlocking, locking>>
SigScript == <<PushOf(71) \o PushOf(33), <<OP_CHECKSIG>> >>

CatScript == <<PushOf(10) \o PushOf(10), <<OP_CAT>> >>

HashScript == <<PushOf(32), <<OP_SHA256, OP_SHA256, OP_SHA256>> >>

Hash256Script == <<PushOf(1), <<OP_HASH256>> >>

\* a 1-of-1 multisig: dummy and signature, then OP_1 <key> OP_1
MultisigScript ==
    <<PushOf(1) \o PushOf(1),
      <<OP_1>> \o PushOf(1) \o <<OP_1, OP_CHECKMULTISIG>> >>

BranchScript == <<PushOf(1), <<OP_IF, OP_DUP, OP_ELSE, OP_SWAP, OP_ENDIF>> >>

DupScript == <<PushOf(1), <<OP_DUP>> >>

ScenarioPairs == {SigScript, CatScript, HashScript, Hash256Script,
                  MultisigScript, BranchScript, DupScript}

\* struct EstimatorLimits, small values so that every cap is reached
MkLimits(ss, si, sb, oc, tc) ==
    [max_script_size |-> ss, max_stack_items |-> si,
     max_stack_item_size |-> sb, max_opcode_count |-> oc,
     max_total_cycles |-> tc]

LimitsSet == { MkLimits(200, 100, 1000, 100, 1000000),
               MkLimits(3, 100, 1, 100, 1000000),
               MkLimits(100, 1, 1000, 2, 150),
               MkLimits(100, 0, 1, 100, 1000000) }

\* struct OpcodeCostModel, coefficients in tenths
MkCost(t, c0, c1, ce, cp, ck, cs, ca) ==
    [type |-> t, c0 |-> c0, c1 |-> c1, c_ecdsa |-> ce,
     c_preimage_per_byte |-> cp, c_keyscan |-> ck, c_setup |-> cs,
     c_alloc |-> ca]

\* the Impl built with no "constants" and no "opcodes" in the model file
DefaultModel ==
    [c_dispatch |-> 50, c_parse_per_byte |-> 8, opcode_costs |-> << >>]

\* a model file with entries of the four model types
ExampleModel ==
    [c_dispatch |-> 55, c_parse_per_byte |-> 8,
     opcode_costs |->
        (OP_DUP :> MkCost("CONSTANT", 120, 0, 0, 0, 0, 0, 0)) @@
        (OP_SWAP :> MkCost("CONSTANT", 105, 0, 0, 0, 0, 0, 0)) @@
        (OP_CAT :> MkCost("LINEAR", 500, 5, 0, 0, 0, 0, 200)) @@
        (OP_SHA256 :> MkCost("LINEAR", 2000, 35, 0, 0, 0, 0, 0)) @@
        (OP_CHECKSIG :> MkCost("SIGNATURE", 0, 0, 850000, 25, 0, 0, 0)) @@
        (OP_CHECKMULTISIG :>
            MkCost("MULTISIG", 0, 0, 850000, 25, 1500, 3000, 0))]

CostModels == {DefaultModel, ExampleModel}

\* struct Transaction: only the script lengths matter to the estimator
MkTx(ins, outs) == [inputs |-> ins, outputs |-> outs]

TxSet == { MkTx(<<0>>, <<25>>) }

\* the arguments of a direct call of calculate_sighash_size: transactions of
\* up to MaxTxLen inputs and outputs, every base type with and without
\* SIGHASH_ANYONECANPAY
ScriptLens == {0, 25}

SighashTxSet ==
    {MkTx(ins, outs) : ins \in BoundedSeq(ScriptLens, MaxTxLen),
                       outs \in BoundedSeq(ScriptLens, MaxTxLen)}

SigHashTypes ==
    {b + a : b \in {SIGHASH_ALL, SIGHASH_NONE, SIGHASH_SINGLE},
             a \in {0, SIGHASH_ANYONECANPAY}}

VARIABLES
    unlocking_script,       \* argument of estimate
    locking_script,         \* argument of estimate
    tx,                     \* argument of estimate
    input_index,            \* argument of estimate
    limits,                 \* argument of estimate
    cost_model,             \* Impl: c_dispatch, c_parse_per_byte, opcode_costs
    combined,               \* local: unlocking || locking
    pc,                     \* local: program counter
    stack_sizes,            \* local: size of each stack item
    current_stack_bytes,    \* local: running byte total
    result,                 \* local: the CostEstimate being built
    phase,                  \* "idle" | "loop" | "done" | "crashed"
    sighash_flags,          \* argument of calculate_sighash_size
    sighash_size,           \* value returned by calculate_sighash_size
    peer,                   \* a second call on the same CostEstimator
    loader                  \* the model file and the state of the constructor

inputs == <<unlocking_script, locking_script, tx, input_index, limits,
            cost_model>>

sighash == <<sighash_flags, sighash_size>>

\* what a call of estimate on its own leaves alone
outside == <<sighash_flags, sighash_size, peer, loader>>

vars == <<unlocking_script, locking_script, tx, input_index, limits,
          cost_model, combined, pc, stack_sizes, current_stack_bytes,
          result, phase, sighash_flags, sighash_size, peer, loader>>

(***************************************************************************)
(* Helpers of cost_estimator.cpp                                           *)
(***************************************************************************)
\* a serialized size without the output count byte
serialize_size_NoOutputCount(t) ==
    4 + 1 + SeqSum([i \in 1..Len(t.inputs) |-> 36 + (1 + t.inputs[i]) + 4])
      + SeqSum([i \in 1..Len(t.outputs) |-> 8 + (1 + t.outputs[i])]) + 4

\* Transaction::serialize_size
serialize_size(t) ==
    4 + 1 + SeqSum([i \in 1..Len(t.inputs) |-> 36 + (1 + t.inputs[i]) + 4])
      + 1 + SeqSum([i \in 1..Len(t.outputs) |-> 8 + (1 + t.outputs[i])]) + 4

calculate_sighash_size(t, idx, sighash_type) ==
    LET base_type == sighash_type % 32
        anyone_can_pay == (sighash_type \div SIGHASH_ANYONECANPAY) % 2 = 1
        ins == IF anyone_can_pay
               THEN 1 + 36 + 1 + t.inputs[idx + 1] + 4
               ELSE 1 + SeqSum([i \in 1..Len(t.inputs) |->
                                    36 + 1 + t.inputs[i] + 4])
        outs == IF base_type = SIGHASH_SINGLE
                THEN IF idx < Len(t.outputs)
                     THEN 1 + 8 + 1 + t.outputs[idx + 1]
                     ELSE 0
                ELSE IF base_type = SIGHASH_NONE
                     THEN 1
                     ELSE 1 + SeqSum([i \in 1..Len(t.outputs) |->
                                          8 + 1 + t.outputs[i]])
    IN 4 + ins + outs + 4 + 4

\* calculate_opcode_cost with the per-byte term of the linear model subtracted
opcode_cost_LinearSign(M, op, params) ==
    IF op \notin DOMAIN M.opcode_costs
    THEN 100
    ELSE LET model == M.opcode_costs[op] IN
         CASE model.type = "CONSTANT" -> Trunc(model.c0)
           [] model.type = "LINEAR" ->
                LET n == IF params = <<>> THEN 0 ELSE params[1]
                IN Trunc(model.c0 - model.c1 * n + model.c_alloc)
           [] model.type = "SIGNATURE" ->
                LET preimage_size == IF params = <<>> THEN 1000 ELSE params[1]
                IN Trunc(model.c_ecdsa
                         + model.c_preimage_per_byte * preimage_size)
           [] model.type = "MULTISIG" ->
                LET m == IF Len(params) > 0 THEN params[1] ELSE 1
                    n == IF Len(params) > 1 THEN params[2] ELSE 3
                    preimage_size == IF Len(params) > 2 THEN params[3]
                                     ELSE 1000
                IN Trunc(m * (model.c_ecdsa
                              + model.c_preimage_per_byte * preimage_size)
                         + (n - m) * model.c_keyscan + model.c_setup)
           [] OTHER -> 100

\* calculate_opcode_cost with the Impl's members as the parameter M
opcode_cost(M, op, params) ==
    IF op \notin DOMAIN M.opcode_costs
    THEN 100
    ELSE LET model == M.opcode_costs[op] IN
         CASE model.type = "CONSTANT" -> Trunc(model.c0)
           [] model.type = "LINEAR" ->
                LET n == IF params = <<>> THEN 0 ELSE params[1]
                IN Trunc(model.c0 + model.c1 * n + model.c_alloc)
           [] model.type = "SIGNATURE" ->
                LET preimage_size == IF params = <<>> THEN 1000 ELSE params[1]
                IN Trunc(model.c_ecdsa
                         + model.c_preimage_per_byte * preimage_size)
           [] model.type = "MULTISIG" ->
                LET m == IF Len(params) > 0 THEN params[1] ELSE 1
                    n == IF Len(params) > 1 THEN params[2] ELSE 3
                    preimage_size == IF Len(params) > 2 THEN params[3]
                                     ELSE 1000
                IN Trunc(m * (model.c_ecdsa
                              + model.c_preimage_per_byte * preimage_size)
                         + (n - m) * model.c_keyscan + model.c_setup)
           [] OTHER -> 100

calculate_opcode_cost(op, params) == opcode_cost(cost_model, op, params)

(***************************************************************************)
(* estimate: the code before the loop                                      *)
(***************************************************************************)
EmptyBreakdown ==
    [parsing |-> 0, dispatch |-> 0, stack_ops |-> 0, byte_ops |-> 0,
     hashing |-> 0, signatures |-> 0, control_flow |-> 0]

EmptyEstimate ==
    [total_cycles |-> 0, breakdown |-> EmptyBreakdown,
     peak_stack_bytes |-> 0, peak_stack_items |-> 0,
     signature_count |-> 0, opcode_count |-> 0, warnings |-> <<>>]

Warn(r, w) == [r EXCEPT !.warnings = Append(@, w)]

\* the arguments and the locals of a second call; tx and the Impl are the
\* ones of the first call
MkPeer(unlocking, locking, idx, lim) ==
    [unlocking_script |-> unlocking, locking_script |-> locking,
     input_index |-> idx, limits |-> lim,
     st |-> [pc |-> 0, stack_sizes |-> <<>>, current_stack_bytes |-> 0,
             result |-> EmptyEstimate, phase |-> "idle"]]

\* the constructor has returned; the file it read plays no part any more
Constructed ==
    [readable |-> TRUE, constants |-> FALSE, opcodes |-> << >>,
     state |-> "constructed"]

\* no second call
NoPeer == MkPeer(<<>>, <<>>, 0, MkLimits(200, 100, 1000, 100, 1000000))

\* the size check with the boundary off by one
ExceedsScriptSize_AtLimit(size, lim) == size >= lim.max_script_size

ExceedsScriptSize(size, lim) == size > lim.max_script_size

\* a parsing cost with a fixed part of two bytes per call
ParsingCost_PerCall(size) == Trunc(cost_model.c_parse_per_byte * (size + 2))

ParsingCost(size) == Trunc(cost_model.c_parse_per_byte * size)

ScriptPairs ==
    (UnlockScripts \X BoundedSeq(ScriptBytes, MaxLockLen)) \cup ScenarioPairs

Init ==
    /\ \E p \in ScriptPairs :
          /\ unlocking_script = p[1]
          /\ locking_script = p[2]
    /\ tx \in TxSet
    /\ input_index = 0
    /\ limits \in LimitsSet
    /\ cost_model \in CostModels
    /\ combined = <<>>
    /\ pc = 0
    /\ stack_sizes = <<>>
    /\ current_stack_bytes = 0
    /\ result = EmptyEstimate
    /\ phase = "idle"
    /\ sighash_flags = SIGHASH_ALL
    /\ sighash_size = 0
    /\ peer = NoPeer
    /\ loader = Constructed

Begin ==
    /\ phase = "idle"
    /\ LET c == unlocking_script \o locking_script IN
        /\ combined' = c
        /\ IF ExceedsScriptSize(Len(c), limits)
           THEN /\ result' = Warn(EmptyEstimate, ScriptTooLarge)
                /\ phase' = "done"
           ELSE /\ result' = [EmptyEstimate EXCEPT
                                !.breakdown.parsing = ParsingCost(Len(c)),
                                !.total_cycles = ParsingCost(Len(c))]
                /\ phase' = "loop"
    /\ pc' = 0
    /\ stack_sizes' = <<>>
    /\ current_stack_bytes' = 0
    /\ UNCHANGED <<inputs, outside>>

(***************************************************************************)
(* estimate: one iteration of the while loop                               *)
(***************************************************************************)
\* the opcode limit check with the boundary off by one
OpcodeLimitReached_Late(count, lim) == count > lim.max_opcode_count

OpcodeLimitReached(count, lim) == count >= lim.max_opcode_count

\* loop condition true and the opcode limit not reached: a byte is fetched
Fetching ==
    /\ phase = "loop"
    /\ pc < Len(combined)
    /\ ~OpcodeLimitReached(result.opcode_count, limits)

op_byte == combined[pc + 1]

\* dispatch kept as the truncation of c_dispatch times the opcode count
Dispatched_TruncProduct(r) ==
    LET d == Trunc(cost_model.c_dispatch * (r.opcode_count + 1))
    IN [r EXCEPT !.opcode_count = @ + 1,
                 !.breakdown.dispatch = d,
                 !.total_cycles = @ + d - r.breakdown.dispatch]

\* the dispatch overhead without opcode_count++
Dispatched_NoCount(r) ==
    [r EXCEPT !.breakdown.dispatch = @ + Trunc(cost_model.c_dispatch),
              !.total_cycles = @ + Trunc(cost_model.c_dispatch)]

\* opcode_count++ and the dispatch overhead
Dispatched(r) ==
    [r EXCEPT !.opcode_count = @ + 1,
              !.breakdown.dispatch = @ + Trunc(cost_model.c_dispatch),
              !.total_cycles = @ + Trunc(cost_model.c_dispatch)]

StackBytesOver(bytes, lim) == bytes > lim.max_stack_item_size

StackItemsOver(items, lim) == items > lim.max_stack_items

TrackPeak(r, stk, bytes) ==
    [r EXCEPT !.peak_stack_bytes = Max(@, bytes),
              !.peak_stack_items = Max(@, Len(stk))]

\* stack limit checks that append their warning and let the loop go on
EndIteration_WarnOnly(r, stk, bytes, npc) ==
    LET r1 == TrackPeak(r, stk, bytes) IN
    /\ stack_sizes' = stk
    /\ current_stack_bytes' = bytes
    /\ pc' = npc
    /\ result' = IF StackBytesOver(bytes, limits)
                 THEN Warn(r1, StackBytesExceeded)
                 ELSE IF StackItemsOver(Len(stk), limits)
                      THEN Warn(r1, StackItemsExceeded)
                      ELSE r1
    /\ phase' = "loop"
    /\ UNCHANGED <<inputs, outside, combined>>

\* the end of an iteration: peak tracking, then the stack limit checks
EndIteration(r, stk, bytes, npc) ==
    LET r1 == TrackPeak(r, stk, bytes) IN
    /\ stack_sizes' = stk
    /\ current_stack_bytes' = bytes
    /\ pc' = npc
    /\ IF StackBytesOver(bytes, limits)
       THEN /\ result' = Warn(r1, StackBytesExceeded)
            /\ phase' = "done"
       ELSE IF StackItemsOver(Len(stk), limits)
            THEN /\ result' = Warn(r1, StackItemsExceeded)
                 /\ phase' = "done"
            ELSE /\ result' = r1
                 /\ phase' = "loop"
    /\ UNCHANGED <<inputs, outside, combined>>

OpcodeLimit ==
    /\ phase = "loop"
    /\ pc < Len(combined)
    /\ OpcodeLimitReached(result.opcode_count, limits)
    /\ result' = Warn(result, OpcodeLimitExceeded)
    /\ phase' = "done"
    /\ UNCHANGED <<inputs, outside, combined, pc, stack_sizes,
                   current_stack_bytes>>

IsDirectPush(b) == b > 0 /\ b < OP_PUSHDATA1

IsPushData1(b, p, size) == b = OP_PUSHDATA1 /\ p < size

\* a direct push that does not move the program counter
DirectPush_NoAdvance ==
    /\ Fetching
    /\ IsDirectPush(op_byte)
    /\ LET push_size == op_byte IN
       EndIteration(Dispatched(result),
                    Append(stack_sizes, push_size),
                    current_stack_bytes + push_size,
                    pc)

DirectPush ==
    /\ Fetching
    /\ IsDirectPush(op_byte)
    /\ LET push_size == op_byte IN
       EndIteration(Dispatched(result),
                    Append(stack_sizes, push_size),
                    current_stack_bytes + push_size,
                    pc + 1 + push_size)

PushData1 ==
    /\ Fetching
    /\ ~IsDirectPush(op_byte)
    /\ IsPushData1(op_byte, pc + 1, Len(combined))
    /\ LET push_size == combined[pc + 2] IN
       EndIteration(Dispatched(result),
                    Append(stack_sizes, push_size),
                    current_stack_bytes + push_size,
                    pc + 2 + push_size)

\* the else branch: the byte is executed as an opcode
Executing ==
    /\ Fetching
    /\ ~IsDirectPush(op_byte)
    /\ ~IsPushData1(op_byte, pc + 1, Len(combined))

\* line 290: the opcode's cost is added to the total after the switch
AddTotal(r, op, params) ==
    [r EXCEPT !.total_cycles = @ + calculate_opcode_cost(op, params)]

DupParams(stk) == IF stk # <<>> THEN <<stk[Len(stk)]>> ELSE <<>>

\* OP_DUP that does not count the bytes of the copy
OpDup_NoBytes ==
    /\ Executing
    /\ op_byte = OP_DUP
    /\ LET params == DupParams(stack_sizes)
           stk == IF stack_sizes # <<>>
                  THEN Append(stack_sizes, stack_sizes[Len(stack_sizes)])
                  ELSE stack_sizes
           bytes == current_stack_bytes
           r1 == [Dispatched(result) EXCEPT !.breakdown.stack_ops =
                     @ + calculate_opcode_cost(OP_DUP, params)]
       IN EndIteration(AddTotal(r1, OP_DUP, params), stk, bytes, pc + 1)

OpDup ==
    /\ Executing
    /\ op_byte = OP_DUP
    /\ LET params == DupParams(stack_sizes)
           stk == IF stack_sizes # <<>>
                  THEN Append(stack_sizes, stack_sizes[Len(stack_sizes)])
                  ELSE stack_sizes
           bytes == IF stack_sizes # <<>>
                    THEN current_stack_bytes + stack_sizes[Len(stack_sizes)]
                    ELSE current_stack_bytes
           r1 == [Dispatched(result) EXCEPT !.breakdown.stack_ops =
                     @ + calculate_opcode_cost(OP_DUP, params)]
       IN EndIteration(AddTotal(r1, OP_DUP, params), stk, bytes, pc + 1)

SwapTop(stk) ==
    IF Len(stk) >= 2
    THEN [stk EXCEPT ![Len(stk)] = stk[Len(stk) - 1],
                     ![Len(stk) - 1] = stk[Len(stk)]]
    ELSE stk

OpSwap ==
    /\ Executing
    /\ op_byte = OP_SWAP
    /\ LET r1 == [Dispatched(result) EXCEPT !.breakdown.stack_ops =
                     @ + calculate_opcode_cost(OP_SWAP, <<>>)]
       IN EndIteration(AddTotal(r1, OP_SWAP, <<>>), SwapTop(stack_sizes),
                       current_stack_bytes, pc + 1)

\* OP_CAT whose result has the size of its first operand only
OpCat_DropsOperand ==
    /\ Executing
    /\ op_byte = OP_CAT
    /\ LET n == Len(stack_sizes)
           has2 == n >= 2
           size_b == stack_sizes[n]
           size_a == stack_sizes[n - 1]
           result_size == size_a
           stk == IF has2
                  THEN Append(SubSeq(stack_sizes, 1, n - 2), result_size)
                  ELSE stack_sizes
           bytes == IF has2
                    THEN current_stack_bytes - size_a - size_b + result_size
                    ELSE current_stack_bytes
           params == IF has2 THEN <<result_size>> ELSE <<>>
           r1 == [Dispatched(result) EXCEPT !.breakdown.byte_ops =
                     @ + calculate_opcode_cost(OP_CAT, params)]
       IN EndIteration(AddTotal(r1, OP_CAT, params), stk, bytes, pc + 1)

OpCat ==
    /\ Executing
    /\ op_byte = OP_CAT
    /\ LET n == Len(stack_sizes)
           has2 == n >= 2
           size_b == stack_sizes[n]
           size_a == stack_sizes[n - 1]
           result_size == size_a + size_b
           stk == IF has2
                  THEN Append(SubSeq(stack_sizes, 1, n - 2), result_size)
                  ELSE stack_sizes
           bytes == IF has2
                    THEN current_stack_bytes - size_a - size_b + result_size
                    ELSE current_stack_bytes
           params == IF has2 THEN <<result_size>> ELSE <<>>
           r1 == [Dispatched(result) EXCEPT !.breakdown.byte_ops =
                     @ + calculate_opcode_cost(OP_CAT, params)]
       IN EndIteration(AddTotal(r1, OP_CAT, params), stk, bytes, pc + 1)

\* a hash that leaves the size of its operand on the stack
OpHash_KeepsSize ==
    /\ Executing
    /\ op_byte \in {OP_SHA256, OP_HASH256}
    /\ LET n == Len(stack_sizes)
           input_size == stack_sizes[n]
           stk == IF n > 0
                  THEN stack_sizes
                  ELSE stack_sizes
           bytes == IF n > 0
                    THEN current_stack_bytes
                    ELSE current_stack_bytes
           params == IF n > 0 THEN <<input_size>> ELSE <<>>
           r1 == [Dispatched(result) EXCEPT !.breakdown.hashing =
                     @ + calculate_opcode_cost(op_byte, params)]
       IN EndIteration(AddTotal(r1, op_byte, params), stk, bytes, pc + 1)

\* OP_SHA256 and OP_HASH256 share one case.  The uint64 subtraction may
\* wrap when the running total is below the popped size, and the following
\* += 32 wraps back: the net value is the one computed here.
OpHash ==
    /\ Executing
    /\ op_byte \in {OP_SHA256, OP_HASH256}
    /\ LET n == Len(stack_sizes)
           input_size == stack_sizes[n]
           stk == IF n > 0
                  THEN Append(SubSeq(stack_sizes, 1, n - 1), 32)
                  ELSE stack_sizes
           bytes == IF n > 0
                    THEN current_stack_bytes - input_size + 32
                    ELSE current_stack_bytes
           params == IF n > 0 THEN <<input_size>> ELSE <<>>
           r1 == [Dispatched(result) EXCEPT !.breakdown.hashing =
                     @ + calculate_opcode_cost(op_byte, params)]
       IN EndIteration(AddTotal(r1, op_byte, params), stk, bytes, pc + 1)

\* OP_CHECKSIG that pops its two operands and pushes no result
CheckSigStack_NoResult(stk) ==
    IF Len(stk) >= 2 THEN SubSeq(stk, 1, Len(stk) - 2) ELSE stk

\* the stack effect of OP_CHECKSIG; current_stack_bytes is not touched
CheckSigStack(stk) ==
    IF Len(stk) >= 2
    THEN Append(SubSeq(stk, 1, Len(stk) - 2), 1)
    ELSE stk

OpCheckSig ==
    /\ Executing
    /\ op_byte = OP_CHECKSIG
    /\ LET preimage_size ==
               calculate_sighash_size(tx, input_index, SIGHASH_ALL)
           r1 == [Dispatched(result) EXCEPT
                     !.breakdown.signatures =
                         @ + calculate_opcode_cost(OP_CHECKSIG,
                                                   <<preimage_size>>),
                     !.signature_count = @ + 1]
       IN \* params is still empty at line 290
          EndIteration(AddTotal(r1, OP_CHECKSIG, <<>>),
                       CheckSigStack(stack_sizes),
                       current_stack_bytes, pc + 1)

HandledOps == {OP_DUP, OP_SWAP, OP_CAT, OP_SHA256, OP_HASH256, OP_CHECKSIG}

\* the default case without its own += 100
DefaultCharge_Once(r) == r

\* default: 100 is added to the total, and then the opcode's cost again
DefaultCharge(r) == [r EXCEPT !.total_cycles = @ + 100]

OpDefault ==
    /\ Executing
    /\ op_byte \notin HandledOps
    /\ EndIteration(AddTotal(DefaultCharge(Dispatched(result)), op_byte, <<>>),
                    stack_sizes, current_stack_bytes, pc + 1)

\* the loop condition is false: return result
Return ==
    /\ phase = "loop"
    /\ pc >= Len(combined)
    /\ phase' = "done"
    /\ UNCHANGED <<inputs, outside, combined, pc, stack_sizes,
                   current_stack_bytes, result>>

Next ==
    \/ Begin
    \/ OpcodeLimit
    \/ DirectPush
    \/ PushData1
    \/ OpDup
    \/ OpSwap
    \/ OpCat
    \/ OpHash
    \/ OpCheckSig
    \/ OpDefault
    \/ Return

Spec == Init /\ [][Next]_vars

\* the call runs on a thread that keeps taking steps until it returns
SpecFair == Spec /\ WF_vars(Next)

(***************************************************************************)
(* calculate_sighash_size called on its own                                *)
(***************************************************************************)
InitSighash ==
    /\ unlocking_script = <<>>
    /\ locking_script = <<>>
    /\ tx \in SighashTxSet
    /\ input_index \in 0..MaxTxLen
    /\ limits = MkLimits(200, 100, 1000, 100, 1000000)
    /\ cost_model = DefaultModel
    /\ combined = <<>>
    /\ pc = 0
    /\ stack_sizes = <<>>
    /\ current_stack_bytes = 0
    /\ result = EmptyEstimate
    /\ phase = "idle"
    /\ sighash_flags \in SigHashTypes
    /\ sighash_size = 0
    /\ peer = NoPeer
    /\ loader = Constructed

AnyoneCanPay(type) == (type \div SIGHASH_ANYONECANPAY) % 2 = 1

\* tx.inputs[input_index] is read, and lies inside the vector
InputInRange == AnyoneCanPay(sighash_flags) => input_index < Len(tx.inputs)

SigHashCall ==
    /\ phase = "idle"
    /\ InputInRange
    /\ sighash_size' = calculate_sighash_size(tx, input_index, sighash_flags)
    /\ phase' = "done"
    /\ UNCHANGED <<inputs, sighash_flags, peer, loader, combined, pc,
                   stack_sizes, current_stack_bytes, result>>

\* tx.inputs[input_index] past the end of the vector is undefined behaviour:
\* the call crashes, or it reads some script_sig size from foreign memory
SigHashOutOfRange ==
    /\ phase = "idle"
    /\ ~InputInRange
    /\ \/ /\ phase' = "crashed"
          /\ UNCHANGED sighash_size
       \/ /\ phase' = "done"
          /\ \E garbage \in ScriptLens :
                LET read == [i \in 1..(input_index + 1) |->
                               IF i <= Len(tx.inputs) THEN tx.inputs[i]
                               ELSE garbage]
                IN sighash_size' =
                       calculate_sighash_size([tx EXCEPT !.inputs = read],
                                              input_index, sighash_flags)
    /\ UNCHANGED <<inputs, sighash_flags, peer, loader, combined, pc,
                   stack_sizes, current_stack_bytes, result>>

NextSighash ==
    \/ SigHashCall
    \/ SigHashOutOfRange

SpecSighash == InitSighash /\ [][NextSighash]_vars

(***************************************************************************)
(* estimate as a function of its arguments and of the Impl's members M:    *)
(* the same code, applied to a record of the locals instead of the state.  *)
(* It gives the result of a second call (another model, another script).   *)
(***************************************************************************)
DispatchedWith(M, r) ==
    [r EXCEPT !.opcode_count = @ + 1,
              !.breakdown.dispatch = @ + Trunc(M.c_dispatch),
              !.total_cycles = @ + Trunc(M.c_dispatch)]

Locals(p, stk, bytes, r, ph) ==
    [pc |-> p, stack_sizes |-> stk, current_stack_bytes |-> bytes,
     result |-> r, phase |-> ph]

EndIterationOf(lim, r, stk, bytes, npc) ==
    LET r1 == TrackPeak(r, stk, bytes) IN
    IF StackBytesOver(bytes, lim)
    THEN Locals(npc, stk, bytes, Warn(r1, StackBytesExceeded), "done")
    ELSE IF StackItemsOver(Len(stk), lim)
         THEN Locals(npc, stk, bytes, Warn(r1, StackItemsExceeded), "done")
         ELSE Locals(npc, stk, bytes, r1, "loop")

\* one iteration of the while loop from the locals st (st.pc < Len(script))
Iteration(M, lim, t, idx, script, st) ==
    LET b == script[st.pc + 1]
        stk == st.stack_sizes
        n == Len(stk)
        bytes == st.current_stack_bytes
        r0 == DispatchedWith(M, st.result)
        Charged(r, params) ==
            [r EXCEPT !.total_cycles = @ + opcode_cost(M, b, params)]
    IN
    IF OpcodeLimitReached(st.result.opcode_count, lim)
    THEN [st EXCEPT !.result = Warn(@, OpcodeLimitExceeded), !.phase = "done"]
    ELSE IF IsDirectPush(b)
    THEN EndIterationOf(lim, r0, Append(stk, b), bytes + b, st.pc + 1 + b)
    ELSE IF IsPushData1(b, st.pc + 1, Len(script))
    THEN LET push_size == script[st.pc + 2] IN
         EndIterationOf(lim, r0, Append(stk, push_size), bytes + push_size,
                        st.pc + 2 + push_size)
    ELSE IF b = OP_DUP
    THEN LET params == DupParams(stk)
             r1 == [r0 EXCEPT !.breakdown.stack_ops =
                       @ + opcode_cost(M, b, params)]
         IN EndIterationOf(lim, Charged(r1, params),
                           IF n > 0 THEN Append(stk, stk[n]) ELSE stk,
                           IF n > 0 THEN bytes + stk[n] ELSE bytes,
                           st.pc + 1)
    ELSE IF b = OP_SWAP
    THEN LET r1 == [r0 EXCEPT !.breakdown.stack_ops =
                       @ + opcode_cost(M, b, <<>>)]
         IN EndIterationOf(lim, Charged(r1, <<>>), SwapTop(stk), bytes,
                           st.pc + 1)
    ELSE IF b = OP_CAT
    THEN LET result_size == stk[n - 1] + stk[n]
             params == IF n >= 2 THEN <<result_size>> ELSE <<>>
             r1 == [r0 EXCEPT !.breakdown.byte_ops =
                       @ + opcode_cost(M, b, params)]
         IN EndIterationOf(lim, Charged(r1, params),
                           IF n >= 2
                           THEN Append(SubSeq(stk, 1, n - 2), result_size)
                           ELSE stk,
                           IF n >= 2
                           THEN bytes - stk[n - 1] - stk[n] + result_size
                           ELSE bytes,
                           st.pc + 1)
    ELSE IF b \in {OP_SHA256, OP_HASH256}
    THEN LET params == IF n > 0 THEN <<stk[n]>> ELSE <<>>
             r1 == [r0 EXCEPT !.breakdown.hashing =
                       @ + opcode_cost(M, b, params)]
         IN EndIterationOf(lim, Charged(r1, params),
                           IF n > 0 THEN Append(SubSeq(stk, 1, n - 1), 32)
                           ELSE stk,
                           IF n > 0 THEN bytes - stk[n] + 32 ELSE bytes,
                           st.pc + 1)
    ELSE IF b = OP_CHECKSIG
    THEN LET preimage_size == calculate_sighash_size(t, idx, SIGHASH_ALL)
             r1 == [r0 EXCEPT
                       !.breakdown.signatures =
                           @ + opcode_cost(M, b, <<preimage_size>>),
                       !.signature_count = @ + 1]
         IN EndIterationOf(lim, Charged(r1, <<>>), CheckSigStack(stk), bytes,
                           st.pc + 1)
    ELSE EndIterationOf(lim, Charged(DefaultCharge(r0), <<>>), stk, bytes,
                        st.pc + 1)

RECURSIVE RunLoop(_, _, _, _, _, _)
RunLoop(M, lim, t, idx, script, st) ==
    IF st.phase = "done" THEN st
    ELSE IF st.pc >= Len(script) THEN [st EXCEPT !.phase = "done"]
    ELSE RunLoop(M, lim, t, idx, script,
                 Iteration(M, lim, t, idx, script, st))

\* the locals of estimate at its return
estimate(M, lim, t, idx, unlocking, locking) ==
    LET c == unlocking \o locking
        parsing == Trunc(M.c_parse_per_byte * Len(c))
    IN IF ExceedsScriptSize(Len(c), lim)
       THEN Locals(0, <<>>, 0, Warn(EmptyEstimate, ScriptTooLarge), "done")
       ELSE RunLoop(M, lim, t, idx, c,
                    Locals(0, <<>>, 0,
                           [EmptyEstimate EXCEPT
                               !.breakdown.parsing = parsing,
                               !.total_cycles = parsing],
                           "loop"))

\* the step machine and the function are the same code
SameAsFunction ==
    phase = "done" =>
        Locals(pc, stack_sizes, current_stack_bytes, result, phase) =
            estimate(cost_model, limits, tx, input_index,
                     unlocking_script, locking_script)

(***************************************************************************)
(* Two calls of estimate / estimate_with_limits on one CostEstimator, run  *)
(* by two threads.  The first call is the step machine above; the second   *)
(* one runs the same code on its own arguments and locals (peer), on the   *)
(* same Impl (cost_model) and the same borrowed transaction (tx).  A step  *)
(* of either thread is one loop iteration.                                 *)
(***************************************************************************)
ConcurrentPairs ==
    ScenarioPairs \cup { << <<OP_PUSHDATA1, 0>>, <<OP_CHECKSIG>> >> }

ConcurrentLimits == { MkLimits(200, 100, 1000, 100, 1000000),
                      MkLimits(100, 1, 1000, 2, 150) }

InitConcurrent ==
    /\ \E p \in ConcurrentPairs :
          /\ unlocking_script = p[1]
          /\ locking_script = p[2]
    /\ tx \in TxSet
    /\ input_index = 0
    /\ limits \in ConcurrentLimits
    /\ cost_model \in CostModels
    /\ combined = <<>>
    /\ pc = 0
    /\ stack_sizes = <<>>
    /\ current_stack_bytes = 0
    /\ result = EmptyEstimate
    /\ phase = "idle"
    /\ sighash_flags = SIGHASH_ALL
    /\ sighash_size = 0
    /\ \E q \in ConcurrentPairs : \E lim \in ConcurrentLimits :
          peer = MkPeer(q[1], q[2], 0, lim)
    /\ loader = Constructed

PeerScript == peer.unlocking_script \o peer.locking_script

\* the second call up to its loop
PeerBegin ==
    /\ peer.st.phase = "idle"
    /\ peer' =
          [peer EXCEPT !.st =
              IF ExceedsScriptSize(Len(PeerScript), peer.limits)
              THEN Locals(0, <<>>, 0, Warn(EmptyEstimate, ScriptTooLarge),
                          "done")
              ELSE LET parsing ==
                           Trunc(cost_model.c_parse_per_byte * Len(PeerScript))
                   IN Locals(0, <<>>, 0,
                             [EmptyEstimate EXCEPT
                                 !.breakdown.parsing = parsing,
                                 !.total_cycles = parsing],
                             "loop")]
    /\ UNCHANGED <<inputs, sighash, loader, combined, pc, stack_sizes,
                   current_stack_bytes, result, phase>>

\* one iteration of the second call in which it works on the first call's
\* size stack and leaves its result there
PeerIterate_SharedStack ==
    /\ peer.st.phase = "loop"
    /\ peer.st.pc < Len(PeerScript)
    /\ LET st == Iteration(cost_model, peer.limits, tx, peer.input_index,
                           PeerScript,
                           [peer.st EXCEPT !.stack_sizes = stack_sizes])
       IN /\ peer' = [peer EXCEPT !.st = st]
          /\ stack_sizes' = st.stack_sizes
    /\ UNCHANGED <<inputs, sighash, loader, combined, pc, current_stack_bytes, result,
                   phase>>

\* one iteration of the second call
PeerIterate ==
    /\ peer.st.phase = "loop"
    /\ peer.st.pc < Len(PeerScript)
    /\ peer' = [peer EXCEPT !.st =
                   Iteration(cost_model, peer.limits, tx, peer.input_index,
                             PeerScript, peer.st)]
    /\ UNCHANGED <<inputs, sighash, loader, combined, pc, stack_sizes,
                   current_stack_bytes, result, phase>>

PeerReturn ==
    /\ peer.st.phase = "loop"
    /\ peer.st.pc >= Len(PeerScript)
    /\ peer' = [peer EXCEPT !.st.phase = "done"]
    /\ UNCHANGED <<inputs, sighash, loader, combined, pc, stack_sizes,
                   current_stack_bytes, result, phase>>

NextConcurrent ==
    \/ Next
    \/ PeerBegin
    \/ PeerIterate
    \/ PeerReturn

SpecConcurrent == InitConcurrent /\ [][NextConcurrent]_vars

(***************************************************************************)
(* The constructor: Impl(model_path) calls load_model                      *)
(***************************************************************************)
\* the values of the "model" key and of the opcode names in the sample files
ModelTypes == {"constant", "linear", "signature", "multisig"}

FileModelTypes == ModelTypes \cup {"quadratic"}

FileOpcodeNames == {"OP_DUP", "OP_CHECKSIG", "OP_NOP"}

\* the opcode a name of the file is stored under (the if/else chain of names)
NamedOpcode ==
    ("OP_DUP" :> OP_DUP) @@ ("OP_SWAP" :> OP_SWAP) @@ ("OP_CAT" :> OP_CAT) @@
    ("OP_SHA256" :> OP_SHA256) @@ ("OP_HASH256" :> OP_HASH256) @@
    ("OP_CHECKSIG" :> OP_CHECKSIG) @@
    ("OP_CHECKMULTISIG" :> OP_CHECKMULTISIG)

\* "opcodes" objects: each listed name with its "model"; every coefficient
\* key is present with the value of FileCoefficients
ModelFiles ==
    UNION {[names -> FileModelTypes] : names \in SUBSET FileOpcodeNames}

FileCoefficients ==
    [c_dispatch |-> 55, c_parse_per_byte |-> 8, c0 |-> 120, c1 |-> 5,
     c_alloc |-> 200, c_ecdsa |-> 850000, c_preimage_per_byte |-> 25,
     c_keyscan |-> 1500, c_setup |-> 3000]

\* Type is left uninitialised: any enumerator, or a value that is none
IndeterminateTypes ==
    {"CONSTANT", "LINEAR", "SIGNATURE", "MULTISIG", "INDETERMINATE"}

\* the OpcodeCostModel built for one entry; junk is what the uninitialised
\* type member happens to hold
LoadedEntry(model_type, junk) ==
    LET f == FileCoefficients IN
    IF model_type = "constant"
    THEN MkCost("CONSTANT", f.c0, 0, 0, 0, 0, 0, 0)
    ELSE IF model_type = "linear"
    THEN MkCost("LINEAR", f.c0, f.c1, 0, 0, 0, 0, f.c_alloc)
    ELSE IF model_type = "signature"
    THEN MkCost("SIGNATURE", 0, 0, f.c_ecdsa, f.c_preimage_per_byte, 0, 0, 0)
    ELSE IF model_type = "multisig"
    THEN MkCost("MULTISIG", 0, 0, f.c_ecdsa, f.c_preimage_per_byte,
                f.c_keyscan, f.c_setup, 0)
    ELSE MkCost(junk, 0, 0, 0, 0, 0, 0, 0)

InitLoad ==
    /\ unlocking_script = <<>>
    /\ locking_script = <<>>
    /\ tx \in TxSet
    /\ input_index = 0
    /\ limits = MkLimits(200, 100, 1000, 100, 1000000)
    /\ cost_model = DefaultModel
    /\ combined = <<>>
    /\ pc = 0
    /\ stack_sizes = <<>>
    /\ current_stack_bytes = 0
    /\ result = EmptyEstimate
    /\ phase = "idle"
    /\ sighash_flags = SIGHASH_ALL
    /\ sighash_size = 0
    /\ peer = NoPeer
    /\ \E r \in BOOLEAN, c \in BOOLEAN, f \in ModelFiles :
          loader = [readable |-> r, constants |-> c, opcodes |-> f,
                    state |-> "constructing"]

\* the file cannot be opened: load_model throws
LoadFails ==
    /\ loader.state = "constructing"
    /\ ~loader.readable
    /\ loader' = [loader EXCEPT !.state = "failed"]
    /\ UNCHANGED <<inputs, sighash, peer, combined, pc, stack_sizes,
                   current_stack_bytes, result, phase>>

\* load_model runs to its end and the constructor returns
LoadModel ==
    /\ loader.state = "constructing"
    /\ loader.readable
    /\ \E junk \in IndeterminateTypes :
          LET stored == {n \in DOMAIN loader.opcodes : n \in DOMAIN NamedOpcode}
              ops == {NamedOpcode[n] : n \in stored}
              name(op) == CHOOSE n \in stored : NamedOpcode[n] = op
          IN cost_model' =
                [c_dispatch |-> IF loader.constants
                                THEN FileCoefficients.c_dispatch
                                ELSE cost_model.c_dispatch,
                 c_parse_per_byte |-> IF loader.constants
                                      THEN FileCoefficients.c_parse_per_byte
                                      ELSE cost_model.c_parse_per_byte,
                 opcode_costs |->
                     [op \in ops |->
                         LoadedEntry(loader.opcodes[name(op)], junk)]]
    /\ loader' = [loader EXCEPT !.state = "constructed"]
    /\ UNCHANGED <<unlocking_script, locking_script, tx, input_index, limits,
                   sighash, peer, combined, pc, stack_sizes,
                   current_stack_bytes, result, phase>>

NextLoad ==
    \/ LoadFails
    \/ LoadModel

SpecLoad == InitLoad /\ [][NextLoad]_vars

TypeOK ==
    /\ phase \in {"idle", "loop", "done"}
    /\ pc \in Nat
    /\ current_stack_bytes \in Int
    /\ result.total_cycles \in Nat

(***************************************************************************)
(* Definitions used to state the properties                                *)
(***************************************************************************)
Range(s) == {s[i] : i \in 1..Len(s)}

BreakdownSum(b) ==
    b.parsing + b.dispatch + b.stack_ops + b.byte_ops + b.hashing
    + b.signatures + b.control_flow

TotalLen == Len(unlocking_script) + Len(locking_script)

\* an iteration that fetched and executed an element has just happened
ElementExecuted == result'.opcode_count = result.opcode_count + 1

\* the position after the element that starts at p, as the loop advances pc
NextPc(script, p) ==
    LET b == script[p + 1] IN
    IF IsDirectPush(b) THEN p + 1 + b
    ELSE IF IsPushData1(b, p + 1, Len(script)) THEN p + 2 + script[p + 2]
    ELSE p + 1

\* the number of elements the loop decodes in script from p when no limit
\* stops it
RECURSIVE NumElementsFrom(_, _)
NumElementsFrom(script, p) ==
    IF p >= Len(script) THEN 0
    ELSE 1 + NumElementsFrom(script, NextPc(script, p))

\* the position of the element after the first k elements of script
RECURSIVE PcAfter(_, _, _)
PcAfter(script, p, k) ==
    IF k = 0 \/ p >= Len(script) THEN p
    ELSE PcAfter(script, NextPc(script, p), k - 1)

\* items the opcode b takes from the size stack
NeedsItems(b) ==
    IF b \in {OP_DUP, OP_SHA256, OP_HASH256} THEN 1
    ELSE IF b \in {OP_SWAP, OP_CAT, OP_CHECKSIG} THEN 2
    ELSE 0

\* push opcodes of the script encoding: width of the length field, or -1
LenFieldWidth(b) ==
    IF b = OP_0 \/ IsDirectPush(b) THEN 0
    ELSE IF b = OP_PUSHDATA1 THEN 1
    ELSE IF b = OP_PUSHDATA2 THEN 2
    ELSE IF b = OP_PUSHDATA4 THEN 4
    ELSE -1

IsPushByte(b) == LenFieldWidth(b) >= 0

\* little-endian value of the w bytes after position p (all present)
RECURSIVE LittleEndian(_, _, _)
LittleEndian(script, p, w) ==
    IF w = 0 THEN 0
    ELSE script[p + 1] + 256 * LittleEndian(script, p + 1, w - 1)

\* the length field of the push at p lies inside the script
LenFieldPresent(script, p) ==
    p + 1 + LenFieldWidth(script[p + 1]) <= Len(script)

\* payload length declared by the push at p (length field present)
DeclaredLen(script, p) ==
    LET b == script[p + 1] IN
    IF b = OP_0 THEN 0
    ELSE IF IsDirectPush(b) THEN b
    ELSE LittleEndian(script, p + 1, LenFieldWidth(b))

\* the push at p has its length field and its whole payload in the script
PushComplete(script, p) ==
    /\ LenFieldPresent(script, p)
    /\ p + 1 + LenFieldWidth(script[p + 1]) + DeclaredLen(script, p)
          <= Len(script)

NoStackWarning ==
    /\ StackBytesExceeded \notin Range(result.warnings)
    /\ StackItemsExceeded \notin Range(result.warnings)

(***************************************************************************)
(* C1: after estimate returns, total_cycles equals the sum of the seven    *)
(* breakdown categories.                                                   *)
(***************************************************************************)
C1_TotalIsBreakdownSum ==
    phase = "done" => result.total_cycles = BreakdownSum(result.breakdown)

(***************************************************************************)
(* C2: after each executed opcode, if total_cycles exceeds                 *)
(* max_total_cycles a CycleLimitExceeded warning is appended and the run   *)
(* stops, so no opcode is executed with total_cycles above the ceiling.    *)
(***************************************************************************)
C2_CycleCeiling ==
    [][ElementExecuted =>
          /\ result.total_cycles <= limits.max_total_cycles
          /\ result'.total_cycles > limits.max_total_cycles =>
                /\ CycleLimitExceeded \in Range(result'.warnings)
                /\ phase' = "done"]_vars

(***************************************************************************)
(* C3: an opcode that needs more size-stack items than exist is counted    *)
(* and charged dispatch, an Underflow warning is appended and the run      *)
(* stops.                                                                  *)
(***************************************************************************)
C3_UnderflowStops ==
    [][(Executing /\ Len(stack_sizes) < NeedsItems(op_byte)) =>
          /\ result'.opcode_count = result.opcode_count + 1
          /\ result'.breakdown.dispatch =
                result.breakdown.dispatch + Trunc(cost_model.c_dispatch)
          /\ Underflow \in Range(result'.warnings)
          /\ phase' = "done"]_vars

(***************************************************************************)
(* C4: a push opcode whose length field or payload extends past the end    *)
(* of the concatenated script appends a TruncatedPush warning and stops.   *)
(***************************************************************************)
C4_TruncatedPushStops ==
    [][(Fetching /\ IsPushByte(op_byte) /\ ~PushComplete(combined, pc)) =>
          /\ TruncatedPush \in Range(result'.warnings)
          /\ phase' = "done"]_vars

(***************************************************************************)
(* C5: a push opcode with enough bytes in the script counts one opcode,    *)
(* pushes exactly one item of the declared payload length, advances past   *)
(* the length field and the payload, and charges only dispatch.            *)
(***************************************************************************)
C5_PushDecoding ==
    [][(Fetching /\ IsPushByte(op_byte) /\ PushComplete(combined, pc)) =>
          /\ result'.opcode_count = result.opcode_count + 1
          /\ stack_sizes' = Append(stack_sizes, DeclaredLen(combined, pc))
          /\ pc' = pc + 1 + LenFieldWidth(op_byte) + DeclaredLen(combined, pc)
          /\ result'.total_cycles =
                result.total_cycles + Trunc(cost_model.c_dispatch)
          /\ result'.breakdown =
                [result.breakdown EXCEPT
                    !.dispatch = @ + Trunc(cost_model.c_dispatch)]]_vars

(***************************************************************************)
(* C6 (as stated): at most max_opcode_count elements are executed; a       *)
(* script that holds more elements stops with an OpcodeLimitExceeded       *)
(* warning before the next element is charged or executed, and a script    *)
(* with exactly max_opcode_count elements finishes without that warning.   *)
(***************************************************************************)
OpcodeLimitOutcome ==
    IF NumElementsFrom(combined, 0) > limits.max_opcode_count
    THEN /\ OpcodeLimitExceeded \in Range(result.warnings)
         /\ result.opcode_count = limits.max_opcode_count
         /\ result.breakdown.dispatch =
               limits.max_opcode_count * Trunc(cost_model.c_dispatch)
         /\ pc = PcAfter(combined, 0, limits.max_opcode_count)
    ELSE OpcodeLimitExceeded \notin Range(result.warnings)

C6_OpcodeLimitAsStated ==
    /\ result.opcode_count <= limits.max_opcode_count
    /\ (phase = "done" /\ TotalLen <= limits.max_script_size)
          => OpcodeLimitOutcome

(***************************************************************************)
(* C6 (amended): the same, for the runs that no stack-limit warning ends   *)
(* before the opcode limit is met.                                         *)
(***************************************************************************)
C6_OpcodeLimit ==
    /\ result.opcode_count <= limits.max_opcode_count
    /\ (phase = "done" /\ TotalLen <= limits.max_script_size
          /\ NoStackWarning) => OpcodeLimitOutcome

C6_Witness ==
    /\ phase = "done"
    /\ NoStackWarning
    /\ NumElementsFrom(combined, 0) = limits.max_opcode_count + 1
    /\ result.warnings = <<OpcodeLimitExceeded>>
    /\ result.opcode_count = limits.max_opcode_count

(***************************************************************************)
(* C7: a script of exactly max_script_size bytes is not rejected for       *)
(* size; a longer one returns at once with a ScriptTooLarge warning and    *)
(* an estimate whose counters are all 0.                                   *)
(***************************************************************************)
C7_ScriptSizeBoundary ==
    phase = "done" =>
        IF TotalLen > limits.max_script_size
        THEN /\ result.warnings = <<ScriptTooLarge>>
             /\ result.total_cycles = 0
             /\ \A f \in DOMAIN result.breakdown : result.breakdown[f] = 0
             /\ result.peak_stack_bytes = 0
             /\ result.peak_stack_items = 0
             /\ result.signature_count = 0
             /\ result.opcode_count = 0
        ELSE ScriptTooLarge \notin Range(result.warnings)

C7_Witness ==
    /\ phase = "done"
    /\ TotalLen = limits.max_script_size + 1
    /\ result.warnings = <<ScriptTooLarge>>
    /\ cost_model.c_parse_per_byte > 0

(***************************************************************************)
(* C8: the returned estimate has peak_stack_bytes <= max_stack_item_size   *)
(* * max_stack_items and peak_stack_items <= max_stack_items + 1.          *)
(***************************************************************************)
C8_PeakBounds ==
    phase = "done" =>
        /\ result.peak_stack_bytes
              <= limits.max_stack_item_size * limits.max_stack_items
        /\ result.peak_stack_items <= limits.max_stack_items + 1

(***************************************************************************)
(* C9: after every executed element current_stack_bytes equals the sum of  *)
(* the sizes on the size stack.                                            *)
(***************************************************************************)
C9_BytesEqualSum ==
    phase \in {"loop", "done"} =>
        current_stack_bytes = SeqSum(stack_sizes)


(***************************************************************************)
(* Cost models compared coefficient by coefficient                         *)
(***************************************************************************)
CoefficientNames ==
    {"c0", "c1", "c_ecdsa", "c_preimage_per_byte", "c_keyscan", "c_setup",
     "c_alloc"}

\* M1 <= M2: the same opcode entries with the same model types, and every
\* coefficient of M1 at most the matching coefficient of M2
ModelLeq(M1, M2) ==
    /\ M1.c_dispatch <= M2.c_dispatch
    /\ M1.c_parse_per_byte <= M2.c_parse_per_byte
    /\ DOMAIN M1.opcode_costs = DOMAIN M2.opcode_costs
    /\ \A op \in DOMAIN M1.opcode_costs :
          /\ M1.opcode_costs[op].type = M2.opcode_costs[op].type
          /\ \A f \in CoefficientNames :
                0 <= M1.opcode_costs[op][f]
                /\ M1.opcode_costs[op][f] <= M2.opcode_costs[op][f]

\* M with the global constants raised by g and every per-opcode coefficient
\* raised by d (tenths)
RaiseBy(M, g, d) ==
    [c_dispatch |-> M.c_dispatch + g,
     c_parse_per_byte |-> M.c_parse_per_byte + g,
     opcode_costs |->
        [op \in DOMAIN M.opcode_costs |->
            [f \in DOMAIN M.opcode_costs[op] |->
                IF f = "type" THEN M.opcode_costs[op][f]
                ELSE M.opcode_costs[op][f] + d]]]

\* the models a call under M is compared with
ComparedModels(M) == CostModels \cup {RaiseBy(M, g, d) : g \in {0, 7}, d \in {0, 10}}

TotalUnder(M) ==
    estimate(M, limits, tx, input_index, unlocking_script,
             locking_script).result.total_cycles

AppendedOps == {OP_SWAP, 255}

TotalWith(op) ==
    estimate(cost_model, limits, tx, input_index, unlocking_script,
             locking_script \o <<op>>).result.total_cycles

\* the last element the loop decoded is an OP_PUSHDATA1 at the last byte,
\* executed by the default case for want of its length byte
EndsInBarePushData1 ==
    /\ result.opcode_count > 0
    /\ LET p == PcAfter(combined, 0, result.opcode_count - 1) IN
          /\ p = Len(combined) - 1
          /\ combined[p + 1] = OP_PUSHDATA1

\* what the switch adds to the total for op with empty params
SwitchCharge(op) ==
    IF op \in HandledOps
    THEN opcode_cost(cost_model, op, <<>>)
    ELSE 100 + opcode_cost(cost_model, op, <<>>)

Finished(sc) ==
    /\ phase = "done"
    /\ unlocking_script = sc[1]
    /\ locking_script = sc[2]
    /\ result.warnings = <<>>

HasModel(op, type) ==
    /\ op \in DOMAIN cost_model.opcode_costs
    /\ cost_model.opcode_costs[op].type = type

(***************************************************************************)
(* C13: each OP_CHECKSIG executed with at least two items on the size      *)
(* stack adds one to signature_count, adds trunc(c_ecdsa +                 *)
(* c_preimage_per_byte * calculate_sighash_size(tx, input_index,           *)
(* SIGHASH_ALL)) to breakdown.signatures (the opcode having a signature    *)
(* model) and replaces the top two items by one item of size 1; push-71,   *)
(* push-33, OP_CHECKSIG ends with signature_count = 1 and a stack of one   *)
(* item of size 1.                                                         *)
(***************************************************************************)
C13_CheckSig ==
    /\ [][(Executing /\ op_byte = OP_CHECKSIG /\ Len(stack_sizes) >= 2) =>
            /\ result'.signature_count = result.signature_count + 1
            /\ HasModel(OP_CHECKSIG, "SIGNATURE") =>
                  result'.breakdown.signatures =
                      result.breakdown.signatures
                      + Trunc(cost_model.opcode_costs[OP_CHECKSIG].c_ecdsa
                              + cost_model.opcode_costs[OP_CHECKSIG]
                                    .c_preimage_per_byte
                                * calculate_sighash_size(tx, input_index,
                                                         SIGHASH_ALL))
            /\ stack_sizes' =
                  Append(SubSeq(stack_sizes, 1, Len(stack_sizes) - 2), 1)]_vars
    /\ [](Finished(SigScript) =>
            /\ result.signature_count = 1
            /\ stack_sizes = <<1>>)

C13_Witness ==
    /\ Finished(SigScript)
    /\ HasModel(OP_CHECKSIG, "SIGNATURE")
    /\ result.signature_count = 1
    /\ result.breakdown.signatures > 0
    /\ result.opcode_count = 3

\* the multisig formula for m signatures, n keys and a preimage size
MultisigCharge(model, m, n, preimage) ==
    Trunc(m * (model.c_ecdsa + model.c_preimage_per_byte * preimage)
          + (n - m) * model.c_keyscan + model.c_setup)

\* the size stack stk without its top k items
Popped(stk, k) == SubSeq(stk, 1, Len(stk) - k)

(***************************************************************************)
(* C14: OP_CHECKMULTISIG pops m signatures, n public keys and one dummy    *)
(* item from the size stack and charges breakdown.signatures with          *)
(* trunc(m*(c_ecdsa + c_preimage_per_byte*preimage) + (n-m)*c_keyscan +    *)
(* c_setup), for counts m <= n and the preimage size of the transaction.   *)
(***************************************************************************)
C14_CheckMultiSig ==
    [][(Executing /\ op_byte = OP_CHECKMULTISIG) =>
          \E n \in 0..3 : \E m \in 0..n :
              /\ Len(stack_sizes) >= m + n + 1
              /\ \/ stack_sizes' = Popped(stack_sizes, m + n + 1)
                 \/ \E size \in 0..1 :
                       stack_sizes' =
                           Append(Popped(stack_sizes, m + n + 1), size)
              /\ HasModel(OP_CHECKMULTISIG, "MULTISIG") =>
                    result'.breakdown.signatures =
                        result.breakdown.signatures
                        + MultisigCharge(
                              cost_model.opcode_costs[OP_CHECKMULTISIG], m, n,
                              calculate_sighash_size(tx, input_index,
                                                     SIGHASH_ALL))]_vars

\* an opcode that is no push, that the switch sends to its default case and
\* that the cost model does not list
UnknownOpcode(b) ==
    /\ ~IsPushByte(b)
    /\ b \notin HandledOps
    /\ b \notin DOMAIN cost_model.opcode_costs

(***************************************************************************)
(* C15: an opcode that the executor does not handle and that has no        *)
(* cost-model entry leaves the size stack and current_stack_bytes          *)
(* unchanged, adds exactly c_dispatch + 100 to total_cycles, and the loop  *)
(* goes on with the next opcode.                                           *)
(***************************************************************************)
C15_UnknownOpcode ==
    [][(Executing /\ UnknownOpcode(op_byte)) =>
          /\ stack_sizes' = stack_sizes
          /\ current_stack_bytes' = current_stack_bytes
          /\ result'.total_cycles =
                result.total_cycles + Trunc(cost_model.c_dispatch) + 100
          /\ pc' = pc + 1
          /\ phase' = "loop"]_vars

ControlFlowOps == {OP_IF, OP_ELSE, OP_ENDIF}

(***************************************************************************)
(* C16: in a script with OP_IF ... OP_ELSE ... OP_ENDIF every opcode of    *)
(* both arms is executed and charged (the total holds the sum of both      *)
(* arms), and the cost of OP_IF, OP_ELSE and OP_ENDIF themselves is        *)
(* charged to breakdown.control_flow.                                      *)
(***************************************************************************)
C16_ControlFlow ==
    /\ [][(Executing /\ op_byte \in ControlFlowOps) =>
            result'.breakdown.control_flow =
                result.breakdown.control_flow
                + calculate_opcode_cost(op_byte, <<>>)]_vars
    /\ [](Finished(BranchScript) =>
            /\ result.opcode_count = 6
            /\ result.breakdown.stack_ops =
                  calculate_opcode_cost(OP_DUP, <<1>>)
                  + calculate_opcode_cost(OP_SWAP, <<>>))

(***************************************************************************)
(* The sections of the signature preimage                                  *)
(***************************************************************************)
InputsSection(t, i, flags) ==
    IF AnyoneCanPay(flags)
    THEN 1 + (41 + t.inputs[i + 1])
    ELSE 1 + SeqSum([k \in 1..Len(t.inputs) |-> 41 + t.inputs[k]])

OutputsSection(t, i, flags) ==
    LET base == flags % 32 IN
    IF base = SIGHASH_NONE THEN 1
    ELSE IF base = SIGHASH_SINGLE
         THEN 1 + (IF i < Len(t.outputs) THEN 9 + t.outputs[i + 1] ELSE 0)
         ELSE 1 + SeqSum([k \in 1..Len(t.outputs) |-> 9 + t.outputs[k]])

(***************************************************************************)
(* C17: calculate_sighash_size(tx, i, flags) is 12 plus the inputs section *)
(* (1 + 41 + len(script_sig of input i) with ANYONECANPAY, 1 + the sum of  *)
(* 41 + len(script_sig) over all inputs otherwise) plus the outputs        *)
(* section (1 + the sum of 9 + len(script_pubkey) for ALL, 1 for NONE, and *)
(* for SINGLE the 1-byte count plus 9 + len(script_pubkey of output i)     *)
(* only when output i exists), so that the outputs section is at least 1.  *)
(***************************************************************************)
C17_SighashSize ==
    (phase = "done" /\ InputInRange) =>
        /\ sighash_size = 12 + InputsSection(tx, input_index, sighash_flags)
                          + OutputsSection(tx, input_index, sighash_flags)
        /\ sighash_size - 12 - InputsSection(tx, input_index, sighash_flags)
              >= 1

Top(stk) == stk[Len(stk)]

(***************************************************************************)
(* C18: OP_CAT executed with at least two items replaces the top two sizes *)
(* a and b by one item of size a+b, leaves the total stack bytes           *)
(* unchanged, and charges cost_of(OP_CAT, a+b) to breakdown.byte_ops; two  *)
(* 10-byte pushes followed by OP_CAT end with a charge of parameter 20,    *)
(* peak_stack_bytes = 20, a stack of one item of size 20 and byte_ops > 0. *)
(***************************************************************************)
C18_Cat ==
    /\ [][(Executing /\ op_byte = OP_CAT /\ Len(stack_sizes) >= 2) =>
            LET a == stack_sizes[Len(stack_sizes) - 1]
                b == Top(stack_sizes)
            IN /\ stack_sizes' = Append(Popped(stack_sizes, 2), a + b)
               /\ current_stack_bytes' = current_stack_bytes
               /\ result'.breakdown.byte_ops =
                     result.breakdown.byte_ops
                     + calculate_opcode_cost(OP_CAT, <<a + b>>)]_vars
    /\ [](Finished(CatScript) =>
            /\ result.breakdown.byte_ops =
                  calculate_opcode_cost(OP_CAT, <<20>>)
            /\ result.peak_stack_bytes = 20
            /\ stack_sizes = <<20>>
            /\ result.breakdown.byte_ops > 0)

C18_Witness ==
    /\ Finished(CatScript)
    /\ HasModel(OP_CAT, "LINEAR")
    /\ stack_sizes = <<20>>
    /\ result.opcode_count = 3
    /\ result.breakdown.byte_ops > calculate_opcode_cost(OP_CAT, <<>>)

(***************************************************************************)
(* C19: OP_SHA256 and OP_HASH256 executed on a non-empty stack replace the *)
(* top item of size s by an item of size 32, keep the item count, and      *)
(* charge cost_of(op, s) to breakdown.hashing without changing             *)
(* signature_count; a 32-byte push followed by three OP_SHA256 is charged  *)
(* three times with parameter 32 and ends with signature_count = 0, a      *)
(* stack of one item of size 32 and hashing > 0.                           *)
(***************************************************************************)
C19_Hash ==
    /\ [][(Executing /\ op_byte \in {OP_SHA256, OP_HASH256}
                     /\ stack_sizes # <<>>) =>
            /\ stack_sizes' = Append(Popped(stack_sizes, 1), 32)
            /\ Len(stack_sizes') = Len(stack_sizes)
            /\ result'.breakdown.hashing =
                  result.breakdown.hashing
                  + calculate_opcode_cost(op_byte, <<Top(stack_sizes)>>)
            /\ result'.signature_count = result.signature_count]_vars
    /\ [](Finished(HashScript) =>
            /\ result.breakdown.hashing =
                  3 * calculate_opcode_cost(OP_SHA256, <<32>>)
            /\ result.signature_count = 0
            /\ stack_sizes = <<32>>
            /\ result.breakdown.hashing > 0)

C19_Witness ==
    /\ Finished(HashScript)
    /\ HasModel(OP_SHA256, "LINEAR")
    /\ result.opcode_count = 4
    /\ stack_sizes = <<32>>
    /\ result.breakdown.hashing > 3 * calculate_opcode_cost(OP_SHA256, <<>>)

\* the limits admit a script of the given size, stack and opcode count
LimitsAdmit(size, items, bytes, opcodes) ==
    /\ limits.max_script_size >= size
    /\ limits.max_stack_items >= items
    /\ limits.max_stack_item_size >= bytes
    /\ limits.max_opcode_count >= opcodes

(***************************************************************************)
(* C20: OP_DUP executed on a non-empty stack whose top has size t pushes   *)
(* one more item of size t (item count +1, stack bytes +t) and charges     *)
(* cost_of(OP_DUP, t) to breakdown.stack_ops; push-1-byte, OP_DUP returns  *)
(* opcode_count = 2, peak_stack_items = 2, peak_stack_bytes = 2 and no     *)
(* warnings (under limits that admit 3 bytes, 2 items, 2 stack bytes and   *)
(* 2 opcodes).                                                             *)
(***************************************************************************)
C20_Dup ==
    /\ [][(Executing /\ op_byte = OP_DUP /\ stack_sizes # <<>>) =>
            LET t == Top(stack_sizes) IN
            /\ stack_sizes' = Append(stack_sizes, t)
            /\ current_stack_bytes' = current_stack_bytes + t
            /\ result'.breakdown.stack_ops =
                  result.breakdown.stack_ops
                  + calculate_opcode_cost(OP_DUP, <<t>>)]_vars
    /\ []((/\ phase = "done"
           /\ unlocking_script = DupScript[1]
           /\ locking_script = DupScript[2]
           /\ LimitsAdmit(3, 2, 2, 2)) =>
            /\ result.opcode_count = 2
            /\ result.peak_stack_items = 2
            /\ result.peak_stack_bytes = 2
            /\ result.warnings = <<>>)

C20_Witness ==
    /\ Finished(DupScript)
    /\ LimitsAdmit(3, 2, 2, 2)
    /\ stack_sizes = <<1, 1>>
    /\ current_stack_bytes = 2
    /\ result.breakdown.stack_ops > 0

(***************************************************************************)
(* C21: under any interleaving of two calls on one shared CostEstimator    *)
(* each call returns the estimate it returns when run alone, and no step   *)
(* of a call writes to the cost model, to the transaction, or to the other *)
(* call's size stack or result.                                            *)
(***************************************************************************)
C21_Isolation ==
    /\ [](phase = "done" =>
            result = estimate(cost_model, limits, tx, input_index,
                              unlocking_script, locking_script).result)
    /\ [](peer.st.phase = "done" =>
            peer.st.result =
                estimate(cost_model, peer.limits, tx, peer.input_index,
                         peer.unlocking_script, peer.locking_script).result)
    /\ [][/\ cost_model' = cost_model
          /\ tx' = tx
          /\ (peer' # peer) =>
                UNCHANGED <<stack_sizes, current_stack_bytes, result, pc>>
          /\ (result' # result \/ stack_sizes' # stack_sizes) =>
                peer' = peer]_vars

C21_Witness ==
    /\ phase = "done"
    /\ peer.st.phase = "done"
    /\ result.opcode_count >= 3
    /\ peer.st.result.opcode_count >= 3
    /\ result # peer.st.result
    /\ peer.st.stack_sizes # stack_sizes

Min(a, b) == IF a <= b THEN a ELSE b

(***************************************************************************)
(* C22: every call of estimate terminates: the program counter strictly    *)
(* increases on each loop iteration that executes an element, and the call *)
(* returns after executing at most min(len(unlocking) + len(locking),      *)
(* max_opcode_count) elements.                                             *)
(***************************************************************************)
C22_Terminates ==
    /\ [][ElementExecuted => pc' > pc]_vars
    /\ [](result.opcode_count <= Min(TotalLen, limits.max_opcode_count))
    /\ <>(phase = "done")

C22_Witness ==
    /\ phase = "done"
    /\ result.opcode_count = limits.max_opcode_count
    /\ result.opcode_count < TotalLen
    /\ pc > result.opcode_count

(***************************************************************************)
(* C23: loading a model file in which a listed opcode has a model type     *)
(* other than "constant", "linear", "signature" or "multisig" fails: the   *)
(* constructor does not return an estimator, and none that holds a formula *)
(* for that opcode.                                                        *)
(***************************************************************************)
C23_UnknownTypeRejected ==
    (\E n \in DOMAIN loader.opcodes : loader.opcodes[n] \notin ModelTypes) =>
        /\ loader.state # "constructed"
        /\ \A n \in DOMAIN loader.opcodes :
              (loader.opcodes[n] \notin ModelTypes /\ n \in DOMAIN NamedOpcode)
                  => NamedOpcode[n] \notin DOMAIN cost_model.opcode_costs

(***************************************************************************)
(* C24: in every returned estimate opcode_count >= signature_count, and    *)
(* signature_count grows only in an iteration that has counted its element *)
(* in opcode_count.                                                        *)
(***************************************************************************)
C24_SignaturesCounted ==
    /\ [](phase = "done" => result.opcode_count >= result.signature_count)
    /\ [][result'.signature_count # result.signature_count =>
            /\ result'.signature_count = result.signature_count + 1
            /\ result'.opcode_count = result.opcode_count + 1]_vars

C24_Witness ==
    /\ phase = "done"
    /\ result.signature_count = 3
    /\ result.opcode_count = 3

(***************************************************************************)
(* C25: with both scripts empty, for any transaction, limits and cost      *)
(* model, estimate returns total_cycles = 0, opcode_count = 0, every       *)
(* breakdown field and both peaks 0, and no warnings.                      *)
(***************************************************************************)
C25_EmptyScripts ==
    (phase = "done" /\ unlocking_script = <<>> /\ locking_script = <<>>) =>
        /\ result.total_cycles = 0
        /\ result.opcode_count = 0
        /\ result.breakdown = EmptyBreakdown
        /\ result.peak_stack_bytes = 0
        /\ result.peak_stack_items = 0
        /\ result.warnings = <<>>

C25_Witness ==
    /\ phase = "done"
    /\ unlocking_script = <<>>
    /\ locking_script = <<>>
    /\ cost_model = ExampleModel
    /\ limits.max_script_size = 3
    /\ result = EmptyEstimate

\* the call was not stopped by the size check
NotRejected ==
    /\ phase \in {"loop", "done"}
    /\ ScriptTooLarge \notin Range(result.warnings)

(***************************************************************************)
(* C26: for every run not rejected for size, breakdown.parsing is          *)
(* trunc(c_parse_per_byte * (len(unlocking) + len(locking))), it is added  *)
(* to the total once (before the loop, and the loop leaves the field       *)
(* alone), and breakdown.dispatch is opcode_count * trunc(c_dispatch);     *)
(* hence a non-empty script with c_dispatch >= 1 and max_opcode_count >= 1 *)
(* returns opcode_count > 0 and total_cycles > 0.                          *)
(***************************************************************************)
C26_ParsingAndDispatch ==
    /\ [](NotRejected =>
            /\ result.breakdown.parsing =
                  Trunc(cost_model.c_parse_per_byte * TotalLen)
            /\ result.breakdown.dispatch =
                  result.opcode_count * Trunc(cost_model.c_dispatch))
    /\ [][/\ (phase = "idle" /\ phase' = "loop") =>
                result'.total_cycles =
                    Trunc(cost_model.c_parse_per_byte * TotalLen)
          /\ phase = "loop" =>
                /\ result'.breakdown.parsing = result.breakdown.parsing
                /\ result'.total_cycles - result.total_cycles >=
                      result'.breakdown.dispatch - result.breakdown.dispatch
         ]_vars
    /\ []((/\ phase = "done"
           /\ NotRejected
           /\ TotalLen > 0
           /\ cost_model.c_dispatch >= Scale
           /\ limits.max_opcode_count >= 1) =>
            /\ result.opcode_count > 0
            /\ result.total_cycles > 0)

C26_Witness ==
    /\ phase = "done"
    /\ NotRejected
    /\ cost_model.c_dispatch % Scale # 0
    /\ result.opcode_count >= 2
    /\ result.breakdown.parsing > 0
    /\ result.breakdown.dispatch <
          Trunc(cost_model.c_dispatch * result.opcode_count)

(***************************************************************************)
(* C27: every warning ends the run: the returned warnings list has at most *)
(* one entry, and once a warning has been appended no field of the         *)
(* estimate changes again before the call returns.                         *)
(***************************************************************************)
C27_WarningEndsRun ==
    /\ [](Len(result.warnings) <= 1)
    /\ [](result.warnings # <<>> => phase = "done")
    /\ [][result.warnings # <<>> => result' = result]_vars

C27_Witness ==
    /\ phase = "done"
    /\ result.warnings = <<StackItemsExceeded>>
    /\ pc < Len(combined)
    /\ result.opcode_count >= 2

\* the size stack breaches a stack limit
StackLimitBreached ==
    \/ \E i \in 1..Len(stack_sizes) :
          stack_sizes[i] > limits.max_stack_item_size
    \/ Len(stack_sizes) > limits.max_stack_items

(***************************************************************************)
(* C28: a stack byte or stack item count warning is emitted only when a    *)
(* limit is breached: the size stack of the iteration that appended it     *)
(* holds an item larger than max_stack_item_size or more than              *)
(* max_stack_items items.                                                  *)
(***************************************************************************)
C28_StackWarningJustified ==
    ~NoStackWarning => StackLimitBreached

\* what the case of op_byte subtracts from current_stack_bytes (uint64)
Subtracted ==
    IF op_byte \in {OP_SHA256, OP_HASH256} /\ stack_sizes # <<>>
    THEN Top(stack_sizes)
    ELSE IF op_byte = OP_CAT /\ Len(stack_sizes) >= 2
         THEN Top(stack_sizes) + stack_sizes[Len(stack_sizes) - 1]
         ELSE 0

(***************************************************************************)
(* C29: peak_stack_bytes never under-reports: after every executed element *)
(* it is at least the sum of the sizes on the size stack, and no opcode    *)
(* subtracts more from the running byte total than the total holds (the    *)
(* unsigned total never wraps below zero).                                 *)
(***************************************************************************)
C29_PeakCoversStack ==
    /\ []((phase \in {"loop", "done"} /\ result.opcode_count > 0) =>
            result.peak_stack_bytes >= SeqSum(stack_sizes))
    /\ [][Executing => current_stack_bytes >= Subtracted]_vars

(***************************************************************************)
(* C30: for every transaction and input index, calculate_sighash_size(tx,  *)
(* i, SIGHASH_ALL) without ANYONECANPAY is tx.serialize_size() + 4,        *)
(* whatever i is.                                                          *)
(***************************************************************************)
C30_SighashAllIsSerializedSize ==
    (phase = "done" /\ sighash_flags = SIGHASH_ALL) =>
        /\ sighash_size = serialize_size(tx) + 4
        /\ \A i \in 0..(MaxTxLen + 1) :
              calculate_sighash_size(tx, i, SIGHASH_ALL) = sighash_size

C30_Witness ==
    /\ phase = "done"
    /\ sighash_flags = SIGHASH_ALL
    /\ Len(tx.inputs) = 2
    /\ Len(tx.outputs) = 1
    /\ input_index = 2
    /\ tx.inputs[1] # tx.inputs[2]
    /\ sighash_size = serialize_size(tx) + 4

=============================================================================
